---------------------------- MODULE Spec2Model ----------------------------
(***************************************************************************)
(* Model of dependency_graph.py: the loose-object reader (read_commit),    *)
(* the commit decoder (parse_commit_data), the reference resolver, the     *)
(* history walker (get_commits_after_date), the graph builder              *)
(* (generate_graph) and the entry point (main).                            *)
(*                                                                         *)
(* Texts are TLA+ strings and are processed character by character, the    *)
(* way str.split, str.strip, str.startswith and int() process them.        *)
(* Python dicts are functions over string keys.  A raised exception is a   *)
(* result [exc |-> <name>]; a returned value is [exc |-> "none", val |-> v].*)
(*                                                                         *)
(* Left out: the forms of int() beyond a sign and decimal digits, the      *)
(* range of datetime.fromtimestamp, the exhaustion of memory by a list     *)
(* that grows without end, and the failures of graphviz itself.            *)
(***************************************************************************)
EXTENDS Integers, Sequences, FiniteSets, TLC

VARIABLES
    fs,          \* the repository on disk: path -> file content (absent = no file)
    start_date,  \* commit_date of main, as epoch seconds; 0 until main has read it
    scn,         \* how the repository of this run was laid out (read by the properties only)
    pc,          \* position of main
    current,     \* current_commit_hash of the walker
    commits,     \* the walker's result list
    err,         \* the exception that ended the run, "none" while there is none
    fslog,       \* every os.path.exists / open the run performed, in order
    iter,        \* number of walker loop iterations begun
    graph,       \* the Digraph built by generate_graph: [nodes, edges]
    rendered,    \* what save_graph_as_png wrote, NotRendered before
    fn,          \* the function a direct call applies ("none" under main)
    arg,         \* the arguments of the direct call
    ret          \* its result, NotCalled before the call

vars == <<fs, start_date, scn, pc, current, commits, err, fslog, iter, graph,
          rendered, fn, arg, ret>>

mainVars == <<fs, start_date, scn, pc, current, commits, err, fslog, iter, graph, rendered>>

-----------------------------------------------------------------------------
(* Bounds of the model. *)

(* Longest chain of commits in a repository. *)
MaxCommits == 3

(* Number of distinct committer timestamps. *)
MaxTs == 3

(* Loop iterations of the walker that are explored; a walk without a cycle
   needs at most MaxCommits + 1. *)
MaxSteps == 5

(* Lines of a commit text handed to parse_commit_data directly. *)
MaxLines == 3

(* Records of a list handed to generate_graph directly. *)
MaxChain == 3

(* Hash lengths explored on either side of HashWidth. *)
MaxExtra == 2

(* Program constant: the hash width tested by read_commit. *)
HashWidth == 40

-----------------------------------------------------------------------------
(* Python values. *)

None == "<no value>"

Ok(v) == [exc |-> "none", val |-> v]

Raise(e) == [exc |-> e]

Truthy(v) == v # None /\ v # ""

(* Body applied to value, with value evaluated once and then held fixed. *)
With(value, Body(_)) == CHOOSE r \in {Body(x) : x \in {value}} : TRUE

DictSet(d, k, v) == [x \in (DOMAIN d) \cup {k} |-> IF x = k THEN v ELSE d[x]]

DictGet(d, k, default) == IF k \in DOMAIN d THEN d[k] ELSE default

-----------------------------------------------------------------------------
(* Strings. *)

Char(s, i) == SubSeq(s, i, i)

IsSpace(c) == c \in {" ", "\t", "\n", "\r"}

StartsWith(s, p) == Len(s) >= Len(p) /\ SubSeq(s, 1, Len(p)) = p

(* The k-th smallest element of a set of integers. *)
Kth(S, k) ==
    With(S, LAMBDA T : CHOOSE x \in T : Cardinality({y \in T : y < x}) = k - 1)

(* str.split(sep), sep one character: every separator cuts, empty pieces are
   kept. *)
SplitOn(s, sep) ==
    With({0} \cup {i \in 1..Len(s) : Char(s, i) = sep} \cup {Len(s) + 1},
         LAMBDA bounds :
            [k \in 1..(Cardinality(bounds) - 1) |->
                SubSeq(s, Kth(bounds, k) + 1, Kth(bounds, k + 1) - 1)])

WordStarts(s) ==
    {i \in 1..Len(s) : ~IsSpace(Char(s, i)) /\ (i = 1 \/ IsSpace(Char(s, i - 1)))}

WordEnds(s) ==
    {i \in 1..Len(s) : ~IsSpace(Char(s, i)) /\ (i = Len(s) \/ IsSpace(Char(s, i + 1)))}

(* str.split(): runs of whitespace separate, no empty piece is produced. *)
Split(s) ==
    With(<<WordStarts(s), WordEnds(s)>>,
         LAMBDA w :
            [k \in 1..Cardinality(w[1]) |-> SubSeq(s, Kth(w[1], k), Kth(w[2], k))])

(* str.strip() *)
Strip(s) ==
    With(<<WordStarts(s), WordEnds(s)>>,
         LAMBDA w :
            IF w[1] = {} THEN ""
            ELSE SubSeq(s, Kth(w[1], 1), Kth(w[2], Cardinality(w[2]))))

DigitValue(c) ==
    CASE c = "0" -> 0 [] c = "1" -> 1 [] c = "2" -> 2 [] c = "3" -> 3 [] c = "4" -> 4
      [] c = "5" -> 5 [] c = "6" -> 6 [] c = "7" -> 7 [] c = "8" -> 8 [] c = "9" -> 9
      [] OTHER -> -1

RECURSIVE DigitsValue(_, _, _)
DigitsValue(s, i, acc) ==
    IF i > Len(s) THEN acc
    ELSE IF DigitValue(Char(s, i)) < 0 THEN -1
         ELSE DigitsValue(s, i + 1, 10 * acc + DigitValue(Char(s, i)))

(* int(s) on a whitespace-free token: an optional sign and decimal digits. *)
ParseInt(s) ==
    LET signed == Len(s) > 0 /\ Char(s, 1) \in {"-", "+"}
        digits == IF signed THEN SubSeq(s, 2, Len(s)) ELSE s
    IN  With(IF Len(digits) = 0 THEN -1 ELSE DigitsValue(digits, 1, 0),
             LAMBDA v :
                IF v < 0 THEN Raise("ValueError")
                ELSE Ok(IF signed /\ Char(s, 1) = "-" THEN 0 - v ELSE v))

-----------------------------------------------------------------------------
(* parse_commit_data *)

(* One iteration of the loop over the lines: the dict after the line, or the
   exception the line raises. *)
ParseLine(commit_data, line) ==
    IF StartsWith(line, "parent")
    THEN With(Split(line),
              LAMBDA parts :
                 IF Len(parts) < 2 THEN Raise("IndexError")
                 ELSE Ok(DictSet(commit_data, "parent", parts[2])))
    ELSE IF StartsWith(line, "committer")
    THEN With(Split(line),
              LAMBDA committer_parts :
                 IF Len(committer_parts) < 2 THEN Raise("IndexError")
                 ELSE With(ParseInt(committer_parts[Len(committer_parts) - 1]),
                           LAMBDA n :
                              IF n.exc # "none" THEN n
                              ELSE Ok(DictSet(commit_data, "committer_timestamp", n.val))))
    ELSE Ok(commit_data)

RECURSIVE ParseLines(_, _, _)
ParseLines(lines, i, commit_data) ==
    IF i > Len(lines) THEN Ok(commit_data)
    ELSE With(ParseLine(commit_data, lines[i]),
              LAMBDA r : IF r.exc # "none" THEN r ELSE ParseLines(lines, i + 1, r.val))

(* data is the decompressed object: [utf8 |-> whether the bytes are valid
   UTF-8, text |-> the text they encode]. *)
parse_commit_data(data, commit_hash) ==
    IF ~data.utf8 THEN Raise("UnicodeDecodeError")
    ELSE With(SplitOn(data.text, "\n"),
              LAMBDA lines : ParseLines(lines, 1, [commit_hash |-> commit_hash]))

-----------------------------------------------------------------------------
(* Files.  A path is relative to repo_path; os.path.join puts "/" between
   its components. *)

Join(a, b) == a \o "/" \o b

Exists(fsys, path) == path \in DOMAIN fsys

Access(op, path) == [op |-> op, path |-> path]

(* A loose object file holds a zlib stream of its data, or bytes that are no
   zlib stream. *)
Deflate(data) == [zlib |-> TRUE, data |-> data]

Garbage == [zlib |-> FALSE]

Decompress(file_content) ==
    IF file_content.zlib THEN Ok(file_content.data) ELSE Raise("zlib.error")

-----------------------------------------------------------------------------
(* read_commit *)

ObjectPath(commit_hash) ==
    LET objects_path == Join(".git", "objects")
        object_dir   == SubSeq(commit_hash, 1, 2)
        object_file  == SubSeq(commit_hash, 3, Len(commit_hash))
    IN  Join(Join(objects_path, object_dir), object_file)

(* The test of line 20. *)
HashLengthOk(commit_hash) == ~(Len(commit_hash) < HashWidth)

(* The result of the call and the file-system accesses it made, in order. *)
read_commit(commit_hash, fsys) ==
    IF ~HashLengthOk(commit_hash)
    THEN [res |-> Raise("ValueError"), log |-> <<>>]
    ELSE With(ObjectPath(commit_hash),
              LAMBDA commit_file_path :
                 IF ~Exists(fsys, commit_file_path)
                 THEN [res |-> Raise("FileNotFoundError"),
                       log |-> <<Access("exists", commit_file_path)>>]
                 ELSE With(Decompress(fsys[commit_file_path]),
                           LAMBDA decompressed :
                              [res |-> IF decompressed.exc # "none" THEN decompressed
                                       ELSE parse_commit_data(decompressed.val, commit_hash),
                               log |-> <<Access("exists", commit_file_path),
                                         Access("open", commit_file_path)>>]))

-----------------------------------------------------------------------------
(* get_commit_hash_from_ref and the HEAD part of get_commits_after_date *)

get_commit_hash_from_ref(branch_ref, fsys) ==
    LET ref_path == Join(".git", branch_ref)
    IN  IF ~Exists(fsys, ref_path)
        THEN [res |-> Raise("FileNotFoundError"), log |-> <<Access("open", ref_path)>>]
        ELSE [res |-> Ok(Strip(fsys[ref_path])), log |-> <<Access("open", ref_path)>>]

(* Lines 64-73: the hash the walk starts from. *)
ResolveHead(fsys) ==
    LET head_path == Join(".git", "HEAD")
        opened    == <<Access("open", head_path)>>
    IN  IF ~Exists(fsys, head_path)
        THEN [res |-> Raise("FileNotFoundError"), log |-> opened]
        ELSE With(Strip(fsys[head_path]),
                  LAMBDA ref :
                     IF StartsWith(ref, "ref:")
                     THEN With(Split(ref),
                               LAMBDA parts :
                                  IF Len(parts) < 2
                                  THEN [res |-> Raise("IndexError"), log |-> opened]
                                  ELSE With(get_commit_hash_from_ref(parts[2], fsys),
                                            LAMBDA r : [res |-> r.res,
                                                        log |-> opened \o r.log]))
                     ELSE [res |-> Ok(ref), log |-> opened])

-----------------------------------------------------------------------------
(* The loop and the sort of get_commits_after_date *)

(* Keep with the comparison of line 84 made strict. *)
KeepStrict(commit_timestamp, start) == commit_timestamp > start

(* datetime.fromtimestamp(ts, timezone.utc) and start_date.replace(tzinfo=utc)
   both denote instants; an instant is its number of epoch seconds. *)
Keep(commit_timestamp, start) == commit_timestamp >= start

(* ParentOf reading a key the decoder never sets. *)
ParentOfMisspelt(commit_data) == DictGet(commit_data, "parents", None)

(* ParentOf handing back the commit's own hash. *)
ParentOfSelf(commit_data) == commit_data.commit_hash

(* Line 88. *)
ParentOf(commit_data) == DictGet(commit_data, "parent", None)

(* InsertByTimestamp putting a record before the records of equal timestamp. *)
RECURSIVE InsertBeforeEqual(_, _)
InsertBeforeEqual(sorted, c) ==
    IF sorted = <<>> THEN <<c>>
    ELSE IF sorted[Len(sorted)].committer_timestamp < c.committer_timestamp
         THEN Append(sorted, c)
         ELSE Append(InsertBeforeEqual(SubSeq(sorted, 1, Len(sorted) - 1), c),
                     sorted[Len(sorted)])

RECURSIVE InsertByTimestamp(_, _)
InsertByTimestamp(sorted, c) ==
    IF sorted = <<>> THEN <<c>>
    ELSE IF sorted[Len(sorted)].committer_timestamp <= c.committer_timestamp
         THEN Append(sorted, c)
         ELSE Append(InsertByTimestamp(SubSeq(sorted, 1, Len(sorted) - 1), c),
                     sorted[Len(sorted)])

RECURSIVE SortFrom(_, _, _)
SortFrom(list, i, sorted) ==
    IF i > Len(list) THEN sorted
    ELSE SortFrom(list, i + 1, InsertByTimestamp(sorted, list[i]))

(* list.sort(key=committer_timestamp): ascending and stable. *)
SortByTimestamp(list) == SortFrom(list, 1, <<>>)

(* One iteration of the while loop, lines 78-90, from a truthy
   current_commit_hash: the exception it raises, or the list, the next hash
   and whether the loop goes on. *)
WalkIteration(current_commit_hash, list, start, fsys) ==
    With(read_commit(current_commit_hash, fsys),
         LAMBDA r :
            IF r.res.exc # "none"
            THEN [exc |-> r.res.exc, log |-> r.log]
            ELSE IF "committer_timestamp" \notin DOMAIN r.res.val
                 THEN [exc |-> "KeyError", log |-> r.log]
                 ELSE [exc |-> "none", log |-> r.log,
                       commits |-> IF Keep(r.res.val.committer_timestamp, start)
                                   THEN Append(list, r.res.val) ELSE list,
                       current |-> ParentOf(r.res.val)])

-----------------------------------------------------------------------------
(* generate_graph *)

Min(a, b) == IF a < b THEN a ELSE b

(* next((i for i, c in enumerate(commits, 1) if c['commit_hash'] == parent_hash), None) *)
ParentIndex(list, parent_hash) ==
    LET hits == {i \in 1..Len(list) : list[i].commit_hash = parent_hash}
    IN  IF hits = {} THEN 0 ELSE CHOOSE i \in hits : \A j \in hits : i <= j

NodeOf(idx, commit) ==
    [name  |-> ToString(idx),
     label |-> "Commit " \o ToString(idx) \o "\n"
               \o SubSeq(commit.commit_hash, 1, Min(7, Len(commit.commit_hash)))]

(* EdgesOf taking the preceding record for the parent without looking it up. *)
EdgesOfUnchecked(list, idx) ==
    IF Truthy(DictGet(list[idx], "parent", None))
    THEN <<<<ToString(idx - 1), ToString(idx)>>>>
    ELSE <<>>

(* The edges the body of the loop adds for the commit at position idx. *)
EdgesOf(list, idx) ==
    With(DictGet(list[idx], "parent", None),
         LAMBDA parent_hash :
            With(IF Truthy(parent_hash) THEN ParentIndex(list, parent_hash) ELSE 0,
                 LAMBDA parent_idx :
                    IF parent_idx # 0
                    THEN <<<<ToString(parent_idx), ToString(idx)>>>>
                    ELSE <<>>))

RECURSIVE GraphFrom(_, _, _)
GraphFrom(list, idx, g) ==
    IF idx > Len(list) THEN g
    ELSE GraphFrom(list, idx + 1,
                   [nodes |-> Append(g.nodes, NodeOf(idx, list[idx])),
                    edges |-> g.edges \o EdgesOf(list, idx)])

generate_graph(list) == GraphFrom(list, 1, [nodes |-> <<>>, edges |-> <<>>])

-----------------------------------------------------------------------------
(* The repositories the runs start from. *)

Pad38 == "00000000000000000000000000000000000000"

(* The hash of the i-th commit of the chain; Hash(0) names no object. *)
Hash(i) == "c" \o ToString(i) \o Pad38

SideHash == "5d" \o Pad38

ShortHash == SubSeq(Hash(1), 1, HashWidth - 1)

LongHash == Hash(1) \o "0"

Timestamp(k) == 100 * k

Timestamps == {Timestamp(k) : k \in 1..MaxTs}

Dates == {50 * j : j \in 1..(2 * MaxTs + 1)}

RECURSIVE JoinLines(_)
JoinLines(lines) ==
    IF lines = <<>> THEN ""
    ELSE IF Len(lines) = 1 THEN lines[1]
         ELSE lines[1] \o "\n" \o JoinLines(Tail(lines))

CommitterLine(ts) == "committer A <a@x> " \o ToString(ts) \o " +0000"

(* The text of a commit object: headers, an empty line, the message. *)
CommitText(parents, committer, message) ==
    JoinLines(<<"tree 4b825dc">>
              \o [k \in 1..Len(parents) |-> "parent " \o parents[k]]
              \o committer \o <<"">> \o message)

DefectKinds ==
    {"zlib", "utf8", "nocommitter", "barecommitter", "badts", "merge",
     "bareparent", "msgparent"}

NoDefect == [at |-> 0, kind |-> "none"]

(* The parent of the i-th commit of scenario s: the previous commit, and for
   the first commit what s.link says ("" for a root). *)
ChainParent(s, i) == IF i > 1 THEN Hash(i - 1) ELSE s.link

ObjectFile(s, i) ==
    LET kind    == IF s.defect.at = i THEN s.defect.kind ELSE "none"
        first   == IF ChainParent(s, i) = "" THEN <<>> ELSE <<ChainParent(s, i)>>
        parents == IF kind = "merge" THEN first \o <<SideHash>> ELSE first
        committer ==
            CASE kind = "nocommitter"   -> <<>>
              [] kind = "barecommitter" -> <<"committer">>
              [] kind = "badts"         -> <<"committer A <a@x> " \o ToString(s.ts[i])>>
              [] kind = "bareparent"    -> <<"parent", CommitterLine(s.ts[i])>>
              [] OTHER                  -> <<CommitterLine(s.ts[i])>>
        message == IF kind = "msgparent" THEN <<"parents were merged">> ELSE <<"msg">>
    IN  CASE kind = "zlib" -> Garbage
          [] kind = "utf8" -> Deflate([utf8 |-> FALSE, text |-> ""])
          [] OTHER -> Deflate([utf8 |-> TRUE,
                               text |-> CommitText(parents, committer, message)])

SideFile == Deflate([utf8 |-> TRUE,
                     text |-> CommitText(<<>>, <<CommitterLine(Timestamp(1))>>, <<"side">>)])

HeadKinds ==
    {"ref", "detached", "nohead", "noref", "bareref", "empty", "short", "long",
     "dangling", "noconfig"}

(* What HEAD and refs/heads/main hold under each head kind. *)
TipText(s) ==
    CASE s.head = "short"    -> ShortHash
      [] s.head = "long"     -> LongHash
      [] s.head = "dangling" -> Hash(0)
      [] OTHER               -> Hash(s.n)

HeadFiles(s) ==
    CASE s.head = "nohead"   -> <<>>
      [] s.head = "detached" -> (Join(".git", "HEAD") :> (TipText(s) \o "\n"))
      [] s.head = "empty"    -> (Join(".git", "HEAD") :> "\n")
      [] s.head = "bareref"  -> (Join(".git", "HEAD") :> "ref:refs/heads/main\n")
      [] s.head = "noref"    -> (Join(".git", "HEAD") :> "ref: refs/heads/main\n")
      [] OTHER -> (Join(".git", "HEAD") :> "ref: refs/heads/main\n")
                  @@ (Join(".git", "refs/heads/main") :> (TipText(s) \o "\n"))

(* config.json.  commit_date is held as the instant strptime and line 82 make
   of it, in epoch seconds; every second is admitted, as for a caller that
   hands get_commits_after_date a datetime of its own. *)
ConfigFile(s) ==
    IF s.head = "noconfig" THEN <<>>
    ELSE ("config.json" :> [repo_path |-> "", output_image_path |-> "graph",
                            commit_date |-> s.date])

BuildFs(s) ==
    LET side == IF s.defect.kind = "merge" THEN (ObjectPath(SideHash) :> SideFile) ELSE <<>>
        objs == [p \in {ObjectPath(Hash(i)) : i \in 1..s.n} |->
                    ObjectFile(s, CHOOSE i \in 1..s.n : ObjectPath(Hash(i)) = p)]
    IN  ConfigFile(s) @@ HeadFiles(s) @@ objs @@ side

Ascending(n) == [i \in 1..n |-> Timestamp(((i - 1) % MaxTs) + 1)]

(* Chains of every length with every assignment of timestamps and every
   start date. *)
OrderScenarios ==
    UNION {{[n |-> n, ts |-> ts, link |-> "", defect |-> NoDefect, head |-> "ref",
             date |-> d] : ts \in [1..n -> Timestamps], d \in Dates} : n \in 1..MaxCommits}

(* Chains whose first commit names a parent: an absent object, a hash of the
   wrong length, or a commit of the chain (a cycle). *)
LinkScenarios ==
    UNION {{[n |-> n, ts |-> Ascending(n), link |-> l, defect |-> NoDefect,
             head |-> "ref", date |-> d] :
               l \in {Hash(0), ShortHash, LongHash} \cup {Hash(j) : j \in 1..n},
               d \in {50, 150}} : n \in 1..MaxCommits}

(* Chains with one damaged or unusual object. *)
DefectScenarios ==
    UNION {{[n |-> n, ts |-> Ascending(n), link |-> "",
             defect |-> [at |-> i, kind |-> k], head |-> "ref", date |-> 50] :
               i \in 1..n, k \in DefectKinds} : n \in 1..MaxCommits}

(* Every state of HEAD, of the branch file and of the configuration. *)
HeadScenarios ==
    UNION {{[n |-> n, ts |-> Ascending(n), link |-> "", defect |-> NoDefect,
             head |-> h, date |-> 50] : h \in HeadKinds} : n \in 1..MaxCommits}

Scenarios == OrderScenarios \cup LinkScenarios \cup DefectScenarios \cup HeadScenarios

-----------------------------------------------------------------------------
(* main *)

NotRendered == [nodes |-> <<>>, edges |-> <<>>, written |-> FALSE]

NotCalled == [exc |-> "not called"]

EmptyGraph == [nodes |-> <<>>, edges |-> <<>>]

Init ==
    /\ scn \in Scenarios
    /\ fs = BuildFs(scn)
    /\ start_date = 0
    /\ pc = "start"
    /\ current = None
    /\ commits = <<>>
    /\ err = "none"
    /\ fslog = <<>>
    /\ iter = 0
    /\ graph = EmptyGraph
    /\ rendered = NotRendered
    /\ fn = "none"
    /\ arg = None
    /\ ret = NotCalled

(* Abort with the exception caught around the walk and the run going on. *)
AbortSwallowed(e, log) ==
    /\ err' = e
    /\ pc' = "walked"
    /\ fslog' = fslog \o log

(* An exception nobody catches ends the run. *)
Abort(e, log) ==
    /\ err' = e
    /\ pc' = "aborted"
    /\ fslog' = fslog \o log

(* Lines 129-133: load_config and the reading of its keys. *)
MainLoadConfig ==
    /\ pc = "start"
    /\ IF ~Exists(fs, "config.json")
       THEN /\ Abort("FileNotFoundError", <<Access("open", "config.json")>>)
            /\ UNCHANGED start_date
       ELSE /\ start_date' = fs["config.json"].commit_date
            /\ pc' = "resolve"
            /\ fslog' = Append(fslog, Access("open", "config.json"))
            /\ UNCHANGED err
    /\ UNCHANGED <<fs, scn, current, commits, iter, graph, rendered, fn, arg, ret>>

(* Lines 61-76, and lines 93-95 when HEAD holds no hash and the loop is not
   entered. *)
WalkerResolve ==
    /\ pc = "resolve"
    /\ \E r \in {ResolveHead(fs)} :
          IF r.res.exc # "none"
          THEN /\ Abort(r.res.exc, r.log)
               /\ UNCHANGED <<current, commits>>
          ELSE /\ current' = r.res.val
               /\ fslog' = fslog \o r.log
               /\ commits' = IF Truthy(r.res.val) THEN commits ELSE SortByTimestamp(commits)
               /\ pc' = IF Truthy(r.res.val) THEN "walk" ELSE "walked"
               /\ UNCHANGED err
    /\ UNCHANGED <<fs, start_date, scn, iter, graph, rendered, fn, arg, ret>>

(* Lines 77-90: one iteration of the loop, and lines 93-95 when it is the
   last one. *)
WalkerStep ==
    /\ pc = "walk"
    /\ iter < MaxSteps
    /\ iter' = iter + 1
    /\ \E w \in {WalkIteration(current, commits, start_date, fs)} :
          IF w.exc # "none"
          THEN /\ Abort(w.exc, w.log)
               /\ UNCHANGED <<current, commits>>
          ELSE /\ current' = w.current
               /\ fslog' = fslog \o w.log
               /\ commits' = IF Truthy(w.current) THEN w.commits
                             ELSE SortByTimestamp(w.commits)
               /\ pc' = IF Truthy(w.current) THEN "walk" ELSE "walked"
               /\ UNCHANGED err
    /\ UNCHANGED <<fs, start_date, scn, graph, rendered, fn, arg, ret>>

(* Line 139. *)
MainGenerate ==
    /\ pc = "walked"
    /\ graph' = generate_graph(commits)
    /\ pc' = "graphed"
    /\ UNCHANGED <<fs, start_date, scn, current, commits, err, fslog, iter, rendered,
                   fn, arg, ret>>

(* Lines 142-144. *)
MainSave ==
    /\ pc = "graphed"
    /\ rendered' = [nodes |-> graph.nodes, edges |-> graph.edges, written |-> TRUE]
    /\ pc' = "saved"
    /\ UNCHANGED <<fs, start_date, scn, current, commits, err, fslog, iter, graph,
                   fn, arg, ret>>

Next ==
    \/ MainLoadConfig
    \/ WalkerResolve
    \/ WalkerStep
    \/ MainGenerate
    \/ MainSave

Spec == Init /\ [][Next]_vars

(* main is one sequential thread: it keeps running while it has a next step. *)
LiveSpec == Spec /\ WF_vars(Next)

-----------------------------------------------------------------------------
(* Direct calls of the functions, as src/test.py imports them. *)

Idle ==
    /\ fs = <<>>
    /\ start_date = 0
    /\ scn = None
    /\ pc = "call"
    /\ current = None
    /\ commits = <<>>
    /\ err = "none"
    /\ fslog = <<>>
    /\ iter = 0
    /\ graph = EmptyGraph
    /\ rendered = NotRendered
    /\ ret = NotCalled

(* Sequences over S of length at most n. *)
SeqsUpTo(S, n) == UNION {[1..k -> S] : k \in 0..n}

(* parse_commit_data on commit texts of at most MaxLines lines. *)
LinePool ==
    {"parent " \o Hash(1), "parent " \o Hash(2), "parent",
     CommitterLine(Timestamp(1)), "committer", "parents were merged", "tree 4b825dc"}

DecodeInputs ==
    {[data |-> [utf8 |-> TRUE, text |-> JoinLines(lines)], commit_hash |-> Hash(3)] :
        lines \in SeqsUpTo(LinePool, MaxLines)}
    \cup {[data |-> [utf8 |-> FALSE, text |-> ""], commit_hash |-> Hash(3)]}

DecodeInit ==
    /\ Idle
    /\ fn = "parse_commit_data"
    /\ arg \in DecodeInputs

CallParse ==
    /\ fn = "parse_commit_data"
    /\ ret = NotCalled
    /\ ret' = parse_commit_data(arg.data, arg.commit_hash)
    /\ UNCHANGED <<mainVars, fn, arg>>

DecodeSpec == DecodeInit /\ [][CallParse]_vars

(* generate_graph on lists of at most MaxChain records; as in
   test_generate_graph the records carry a hash and, optionally, a parent,
   which may be None. *)
RecordPool ==
    {[commit_hash |-> h] : h \in {Hash(2), Hash(3)}}
    \cup {[commit_hash |-> h, parent |-> q] :
            h \in {Hash(2), Hash(3)}, q \in {None, Hash(1), Hash(2), Hash(3)}}

GraphInit ==
    /\ Idle
    /\ fn = "generate_graph"
    /\ arg \in SeqsUpTo(RecordPool, MaxChain)

CallGraph ==
    /\ fn = "generate_graph"
    /\ ret = NotCalled
    /\ ret' = Ok(generate_graph(arg))
    /\ UNCHANGED <<mainVars, fn, arg>>

GraphSpec == GraphInit /\ [][CallGraph]_vars

(* read_commit on hashes of every length up to HashWidth + MaxExtra, on a
   store that holds a file wherever a hash of a given length would point. *)
HashOfLength(k) == SubSeq(Hash(1) \o Pad38, 1, k)

HealthyFile ==
    Deflate([utf8 |-> TRUE,
             text |-> CommitText(<<>>, <<CommitterLine(Timestamp(1))>>, <<"msg">>)])

ReadStores ==
    {<<>>}
    \cup {(ObjectPath(HashOfLength(k)) :> f) :
            k \in (HashWidth - MaxExtra)..(HashWidth + MaxExtra),
            f \in {HealthyFile, Garbage}}

ReadInit ==
    /\ fs \in ReadStores
    /\ start_date = 0
    /\ scn = None
    /\ pc = "call"
    /\ current = None
    /\ commits = <<>>
    /\ err = "none"
    /\ fslog = <<>>
    /\ iter = 0
    /\ graph = EmptyGraph
    /\ rendered = NotRendered
    /\ ret = NotCalled
    /\ fn = "read_commit"
    /\ arg \in {HashOfLength(k) : k \in 0..(HashWidth + MaxExtra)}

CallRead ==
    /\ fn = "read_commit"
    /\ ret = NotCalled
    /\ \E r \in {read_commit(arg, fs)} :
          /\ ret' = r.res
          /\ fslog' = fslog \o r.log
    /\ UNCHANGED <<fs, start_date, scn, pc, current, commits, err, iter, graph,
                   rendered, fn, arg>>

ReadSpec == ReadInit /\ [][CallRead]_vars

(* main, and generate_graph called directly. *)
BuilderSpec == (Init \/ GraphInit) /\ [][Next \/ CallGraph]_vars

-----------------------------------------------------------------------------
(* What the properties speak about. *)

Range(f) == {f[x] : x \in DOMAIN f}

(* get_commits_after_date has returned its list. *)
Returned == pc \in {"walked", "graphed", "saved"}

WalkOver == pc \in {"walked", "graphed", "saved", "aborted"}

Called == ret # NotCalled

Opened(h) == Access("open", ObjectPath(h)) \in Range(fslog)

OpenCount(h) == Cardinality({k \in DOMAIN fslog : fslog[k] = Access("open", ObjectPath(h))})

(* The position of the first read of h among the accesses of the run. *)
OpenIndex(h) ==
    LET at == {k \in DOMAIN fslog : fslog[k] = Access("open", ObjectPath(h))}
    IN  IF at = {} THEN 0 ELSE Kth(at, 1)

InChain(h) == \E k \in DOMAIN commits : commits[k].commit_hash = h

ChainHashes(s) == {Hash(i) : i \in 1..s.n}

(* A chain of readable commits that ends in a root, entered at its tip. *)
PlainChain == scn.link = "" /\ scn.defect = NoDefect /\ scn.head \in {"ref", "detached"}

-----------------------------------------------------------------------------
(* C1: when the walk reaches a commit whose parent hash names an object that
   is not in the store, it ends there and returns the chain collected so
   far; no error reaches the caller of the walker. *)
C1_MissingParentEndsWalk ==
    (scn.link = Hash(0) /\ scn.defect = NoDefect /\ scn.head = "ref" /\ WalkOver)
        => (Returned /\ err = "none")

ParentLines(text) ==
    SelectSeq(SplitOn(text, "\n"), LAMBDA line : StartsWith(line, "parent"))

SeveralParents ==
    /\ fn = "parse_commit_data"
    /\ arg.data.utf8
    /\ Len(ParentLines(arg.data.text)) >= 2
    /\ \A k \in DOMAIN ParentLines(arg.data.text) :
          /\ Len(Split(ParentLines(arg.data.text)[k])) = 2
          /\ Split(ParentLines(arg.data.text)[k])[1] = "parent"

(* C2: a commit text with two or more parent lines decodes to a record whose
   parent is the hash of the first of them. *)
C2_FirstParentKept ==
    (Called /\ SeveralParents /\ ret.exc = "none")
        => ret.val.parent = Split(ParentLines(arg.data.text)[1])[2]

(* C3: decoding a commit text that has no committer line fails: every record
   the decoder returns has a committer_timestamp. *)
C3_DecoderRequiresCommitter ==
    (fn = "parse_commit_data" /\ Called /\ ret.exc = "none")
        => "committer_timestamp" \in DOMAIN ret.val

(* C4: read_commit fails with the invalid-hash error, before any access to
   the file system, for every hash whose length is not the hash width. *)
C4_WrongLengthRejected ==
    (fn = "read_commit" /\ Called /\ Len(arg) # HashWidth)
        => (ret.exc = "ValueError" /\ fslog = <<>>)

(* C5: the returned chain is ascending by committer_timestamp, and records
   with equal timestamps are in the order in which the walk read them. *)
C5_SortedStable ==
    Returned =>
        \A i, j \in DOMAIN commits :
            i < j =>
                /\ commits[i].committer_timestamp <= commits[j].committer_timestamp
                /\ commits[i].committer_timestamp = commits[j].committer_timestamp
                      => OpenIndex(commits[i].commit_hash) < OpenIndex(commits[j].commit_hash)

(* A returned chain with a tie and with two records the sort has exchanged. *)
C5_Witness ==
    /\ Returned
    /\ \E i, j \in DOMAIN commits :
          i < j /\ commits[i].committer_timestamp = commits[j].committer_timestamp
    /\ \E i, j \in DOMAIN commits :
          i < j /\ OpenIndex(commits[i].commit_hash) > OpenIndex(commits[j].commit_hash)

DateBeforeAll == \A i \in 1..scn.n : scn.date < scn.ts[i]

(* C6: on a chain of n commits ending in a root, walked from its tip with a
   start date before every timestamp, the walker returns n records, one for
   each commit. *)
C6_RoundTrip ==
    (PlainChain /\ DateBeforeAll /\ Returned)
        => /\ Len(commits) = scn.n
           /\ \A i \in 1..scn.n :
                 Cardinality({k \in DOMAIN commits : commits[k].commit_hash = Hash(i)}) = 1

(* A chain of three or more commits came back whole. *)
C6_Witness == PlainChain /\ DateBeforeAll /\ Returned /\ scn.n >= 3 /\ Len(commits) >= 3

(* C7: a commit the walk read is in the returned chain exactly when its
   timestamp is at or after the start date, and the parent of a commit that
   was skipped for its date is read all the same. *)
C7_InclusiveFilter ==
    Returned =>
        /\ \A i \in 1..scn.n :
              Opened(Hash(i)) => (InChain(Hash(i)) <=> scn.ts[i] >= scn.date)
        /\ scn.defect = NoDefect =>
              \A i \in 2..scn.n :
                  (Opened(Hash(i)) /\ scn.ts[i] < scn.date) => Opened(Hash(i - 1))

(* A commit dated exactly at the start date is kept, and the walk went on
   below a skipped commit to one it kept. *)
C7_Witness ==
    /\ Returned
    /\ \E i \in 1..scn.n : scn.ts[i] = scn.date /\ InChain(Hash(i))
    /\ \E i \in 2..scn.n : Opened(Hash(i)) /\ scn.ts[i] < scn.date /\ InChain(Hash(i - 1))

HasParentInList(list, i) ==
    /\ Truthy(DictGet(list[i], "parent", None))
    /\ \E k \in DOMAIN list : list[k].commit_hash = list[i].parent

GraphOf(list, g) ==
    /\ Len(g.nodes) = Len(list)
    /\ \A i \in DOMAIN list : g.nodes[i].name = ToString(i)
    /\ \A i \in DOMAIN list :
          HasParentInList(list, i) <=> (\E e \in Range(g.edges) : e[2] = ToString(i))
    /\ \A e \in Range(g.edges) :
          \E k, i \in DOMAIN list :
              /\ e = <<ToString(k), ToString(i)>>
              /\ "parent" \in DOMAIN list[i]
              /\ list[k].commit_hash = list[i].parent

ThreeCommitExample ==
    /\ fn = "none"
    /\ PlainChain
    /\ scn.n = 3
    /\ scn.ts = <<100, 200, 300>>
    /\ scn.date = 150

(* C8: the graph has one node for each record, named by its position from 1;
   the record at position i gets the edge from its parent's node exactly
   when some record of the list has the parent's hash, and every edge joins
   two nodes of the graph.  For the chain c1 <- c2 <- c3 with timestamps
   100, 200, 300 and start date 150 the graph has two nodes and the one
   edge between c2 and c3. *)
C8_EdgesWithinChain ==
    /\ (fn = "generate_graph" /\ Called) => GraphOf(arg, ret.val)
    /\ (fn = "none" /\ pc \in {"graphed", "saved"}) => GraphOf(commits, graph)
    /\ (ThreeCommitExample /\ pc \in {"graphed", "saved"})
          => /\ [k \in 1..Len(commits) |-> commits[k].commit_hash] = <<Hash(2), Hash(3)>>
             /\ Len(graph.nodes) = 2
             /\ graph.edges = <<<<"1", "2">>>>

(* The example was rendered: c2, whose parent c1 was filtered out, and c3. *)
C8_Witness ==
    /\ ThreeCommitExample
    /\ pc = "saved"
    /\ commits[1].parent = Hash(1)
    /\ ~InChain(Hash(1))
    /\ Len(rendered.edges) = 1

C9_State ==
    /\ (pc \in {"graphed", "saved"} \/ graph # EmptyGraph \/ rendered.written)
          => (err = "none" /\ ~Truthy(current))
    /\ err # "none" => (pc = "aborted" /\ graph = EmptyGraph /\ ~rendered.written)

(* C9: the graph is built and written only after the walk has returned; once
   an error has ended the run there is no graph and no image, and none
   appears later. *)
C9_NoPartialGraph ==
    /\ []C9_State
    /\ [][err # "none" => (pc' = "aborted" /\ graph' = graph /\ rendered' = rendered)]_vars

(* The run failed in the middle of the walk, with records already collected. *)
C9_Witness == fn = "none" /\ pc = "aborted" /\ iter >= 2 /\ commits # <<>>

CycleOfCommits ==
    scn.link \in ChainHashes(scn) /\ scn.defect = NoDefect /\ scn.head = "ref"

NoCycle == scn.link \notin ChainHashes(scn)

C10_CycleState ==
    CycleOfCommits =>
        /\ ~WalkOver
        /\ err = "none"
        /\ pc = "walk" => current \in ChainHashes(scn)

C10_AcyclicState ==
    NoCycle => \A h \in ChainHashes(scn) \cup {SideHash, Hash(0), LongHash} : OpenCount(h) <= 1

(* C10: when the parent links lead back into the chain, the walk neither
   returns nor fails and goes on reading for as long as it is followed;
   when they do not, the walk ends and has read no object twice. *)
C10_CyclesNeverEnd ==
    /\ []C10_CycleState
    /\ (CycleOfCommits ~> iter = MaxSteps)
    /\ []C10_AcyclicState
    /\ (NoCycle ~> WalkOver)

(* The walk is round the cycle a second time. *)
C10_Witness == CycleOfCommits /\ OpenCount(Hash(scn.n)) >= 2

=============================================================================
